---- MODULE Spec2Model ----
(***************************************************************************)
(* A model of the terminal snake game of snake].c: the game state, the     *)
(* engine (init_game, place_fruit, step_snake, change_direction) and the   *)
(* driver loop of main (start key, poll_input, pause loop, tick).          *)
(***************************************************************************)
EXTENDS Integers, Naturals, Sequences, FiniteSets, TLC

(* ------------------------------------------------------------------ *)
(* Program constants                                                   *)
(* ------------------------------------------------------------------ *)
DEFAULT_WIDTH == 30
DEFAULT_HEIGHT == 20
MAX_SNAKE == DEFAULT_WIDTH * DEFAULT_HEIGHT
STARTING_LENGTH == 4
INITIAL_DELAY_MS == 200
MIN_DELAY_MS == 50

(* ------------------------------------------------------------------ *)
(* Bounds of the model                                                 *)
(* ------------------------------------------------------------------ *)
\* Ticks a freely steering player may make in one session.
MaxFreeTicks == 3
\* place_fruit's samples are enumerated within this Chebyshev distance of
\* the snake's head.
FruitReach == 1

\* typedef struct { int x, y; } Point
Pt(px, py) == [x |-> px, y |-> py]

\* The command lines that are run, each with the player who holds the
\* keyboard: "free" presses any key (for MaxFreeTicks ticks), "route" steers
\* along RouteDir for as long as the game lasts, and so does "fed", for whom
\* rand() puts every fruit on the next cell of the lap.
Sessions ==
  { [argv |-> <<10, 5>>,         player |-> "free"],
    [argv |-> <<10, 5>>,         player |-> "route"],
    [argv |-> <<12, 5>>,         player |-> "route"],
    [argv |-> << >>,             player |-> "fed"],
    [argv |-> <<9, 5>>,          player |-> "fed"],
    [argv |-> <<10, 4>>,         player |-> "fed"],
    [argv |-> <<101, 100>>,      player |-> "fed"],
    [argv |-> <<100, 100>>,      player |-> "fed"],
    [argv |-> <<65536, 65536>>,  player |-> "fed"] }

\* Keys the input source can deliver; "none" is no key waiting.
Keys == {"none", "w", "a", "s", "d", "p", "q", "W", "A", "S", "D", "P", "Q", "x"}

VARIABLES
  width, height,   \* grid
  snake,           \* snake[0 .. snake_len]: the written prefix of the array
  snake_len, dir, fruit, score, delay_ms, level, game_over,
  pc,              \* main's position: "start", "loop", "paused", "step", "done",
                   \* "exited"; in place_fruit: "place_fruit", "placed"
  player,          \* who steers (see Sessions)
  free_ticks,      \* ticks the free player has made
  result,          \* how the last step_snake call returned
  last_dir,        \* dir as the last step_snake call used it
  eaten,           \* fruits eaten since init_game
  key,             \* the key of this iteration of the main loop: poll_input's
                   \* c, in lower case ("none": no key read yet)
  tries,           \* place_fruit's tries
  printed,         \* what main printed at exit
  rejected         \* the last rejected reversal and the ticks made since

vars == << width, height, snake, snake_len, dir, fruit, score, delay_ms,
           level, game_over, pc, player, free_ticks, result, last_dir, eaten,
           key, tries, printed, rejected >>

(* ------------------------------------------------------------------ *)
(* Helpers                                                             *)
(* ------------------------------------------------------------------ *)
point_equal(a, b) == a.x = b.x /\ a.y = b.y

\* int
INT_MAX == 2147483647

\* main: w*h <= 10000 in int arithmetic, for w >= 10 and h >= 5 (the test is
\* not reached otherwise). A product above INT_MAX is signed overflow,
\* undefined behaviour: the test can come out either way (it comes out true
\* when the product wraps to a value <= 10000, as 65536*65536 wraps to 0).
AreaOk(w, h) ==
  IF w <= INT_MAX \div h THEN { w * h <= 10000 } ELSE { TRUE, FALSE }

\* main: the grids the command line (w, h) can give: (w, h) or the defaults.
GridsOf(argv) ==
  IF Len(argv) >= 2 /\ argv[1] >= 10 /\ argv[2] >= 5
  THEN { IF ok THEN [w |-> argv[1], h |-> argv[2]]
               ELSE [w |-> DEFAULT_WIDTH, h |-> DEFAULT_HEIGHT]
         : ok \in AreaOk(argv[1], argv[2]) }
  ELSE { [w |-> DEFAULT_WIDTH, h |-> DEFAULT_HEIGHT] }

\* tolower on the keys of the model
Tolower(k) ==
  CASE k = "W" -> "w" [] k = "A" -> "a" [] k = "S" -> "s" [] k = "D" -> "d"
    [] k = "P" -> "p" [] k = "Q" -> "q" [] OTHER -> k

\* The cells of the first len entries of array sn.
Cells(sn, len) == { sn[i] : i \in 0..(len - 1) }

InGrid(p, w, h) == p.x >= 0 /\ p.x < w /\ p.y >= 0 /\ p.y < h

\* Move with UP going two cells
MoveUpTwo(p, d) ==
  CASE d = "UP"    -> Pt(p.x, p.y - 2)
    [] d = "DOWN"  -> Pt(p.x, p.y + 1)
    [] d = "LEFT"  -> Pt(p.x - 1, p.y)
    [] d = "RIGHT" -> Pt(p.x + 1, p.y)

\* step_snake: the switch on dir
Move(p, d) ==
  CASE d = "UP"    -> Pt(p.x, p.y - 1)
    [] d = "DOWN"  -> Pt(p.x, p.y + 1)
    [] d = "LEFT"  -> Pt(p.x - 1, p.y)
    [] d = "RIGHT" -> Pt(p.x + 1, p.y)

\* HitsWall with the right and bottom walls one cell too far
HitsWallOffByOne(p, w, h) == p.x < 0 \/ p.x > w \/ p.y < 0 \/ p.y > h

\* HitsWall without the test of the top wall
HitsWallNoTop(p, w, h) == p.x < 0 \/ p.x >= w \/ p.y >= h

\* step_snake: wall collision test
HitsWall(p, w, h) == p.x < 0 \/ p.x >= w \/ p.y < 0 \/ p.y >= h

\* HitsSelf with the loop stopping before the tail
HitsSelfSkipTail(p, sn, len) == \E i \in 0..(len - 2) : point_equal(p, sn[i])

\* step_snake: self collision loop
HitsSelf(p, sn, len) == \E i \in 0..(len - 1) : point_equal(p, sn[i])

\* ShiftBody with the loop starting at len - 1: the old tail is not kept
ShiftBodyShort(sn, len, nh) ==
  [i \in 0..len |-> IF i = 0 THEN nh ELSE IF i < len THEN sn[i - 1] ELSE sn[i]]

\* step_snake: move body (writes sn[len] down to sn[1], then sn[0])
ShiftBody(sn, len, nh) ==
  [i \in 0..len |-> IF i = 0 THEN nh ELSE sn[i - 1]]

\* The array prefix one entry longer: snake[len + 1] has never been written
\* and still holds the zero a global starts with.
Extend(sn, len) ==
  [i \in 0..(len + 1) |-> IF i <= len THEN sn[i] ELSE Pt(0, 0)]

\* SpeedsUp without the floor on the delay
SpeedsUpNoFloor(len, delay) == len % 3 = 0

\* step_snake: speed up every 3 fruits
SpeedsUp(len, delay) == len % 3 = 0 /\ delay > MIN_DELAY_MS

\* BoardFull with the test two segments late
BoardFullLate(len) == len >= MAX_SNAKE + 1

\* step_snake: filled board
BoardFull(len) == len >= MAX_SNAKE - 1

\* IsReverse with the horizontal pair left out
IsReverseVertical(d, newd) ==
  (d = "UP" /\ newd = "DOWN") \/ (d = "DOWN" /\ newd = "UP")

\* change_direction: the reversal test
IsReverse(d, newd) ==
  \/ (d = "UP" /\ newd = "DOWN") \/ (d = "DOWN" /\ newd = "UP")
  \/ (d = "LEFT" /\ newd = "RIGHT") \/ (d = "RIGHT" /\ newd = "LEFT")

\* change_direction
change_direction(d, newd) == IF IsReverse(d, newd) THEN d ELSE newd

\* poll_input: the direction after key c (lower case) has been handled
DirAfterKey(d, c) ==
  CASE c = "w" -> change_direction(d, "UP")
    [] c = "s" -> change_direction(d, "DOWN")
    [] c = "a" -> change_direction(d, "LEFT")
    [] c = "d" -> change_direction(d, "RIGHT")
    [] OTHER   -> d

\* poll_input: the direction key c asks for ("NONE": c is no direction key)
DirOfKey(c) ==
  CASE c = "w" -> "UP" [] c = "s" -> "DOWN" [] c = "a" -> "LEFT"
    [] c = "d" -> "RIGHT" [] OTHER -> "NONE"

\* poll_input: its return value
PollReturn(k) ==
  LET c == Tolower(k)
  IN  IF k = "none" THEN "0" ELSE IF c = "q" THEN "q" ELSE IF c = "p" THEN "p" ELSE "1"

\* The route player's lap of the grid (width even, height / 2 even): up
\* column 0, right along row 0, back and forth through the rows above the
\* middle row, right along the middle row, then down and up the columns
\* below it from right to left.
RouteDir(p, w, h) ==
  LET cy == h \div 2
  IN  IF p.x = 0 THEN (IF p.y > 0 THEN "UP" ELSE "RIGHT")
      ELSE IF p.y < cy THEN
        (IF p.y % 2 = 0
           THEN (IF p.x < w - 1 THEN "RIGHT" ELSE "DOWN")
           ELSE (IF p.x > 1 THEN "LEFT" ELSE "DOWN"))
      ELSE IF p.y = cy THEN (IF p.x < w - 1 THEN "RIGHT" ELSE "DOWN")
      ELSE IF (w - 1 - p.x) % 2 = 0
           THEN (IF p.y < h - 1 THEN "DOWN" ELSE "LEFT")
           ELSE (IF p.y > cy + 1 THEN "UP" ELSE "LEFT")

KeyOf(d) ==
  CASE d = "UP" -> "w" [] d = "DOWN" -> "s" [] d = "LEFT" -> "a" [] d = "RIGHT" -> "d"

\* The cells (rand() % width, rand() % height) that are enumerated as
\* samples of place_fruit: those within FruitReach of the head; for the
\* "fed" player the head and the cell after it on the lap.
Samples(head, w, h) ==
  IF player = "fed"
  THEN { c \in { head, Move(head, RouteDir(head, w, h)) } : InGrid(c, w, h) }
  ELSE { Pt(px, py) : px \in (head.x - FruitReach)..(head.x + FruitReach),
                      py \in (head.y - FruitReach)..(head.y + FruitReach) }
       \cap { Pt(px, py) : px \in 0..(w - 1), py \in 0..(h - 1) }

\* Every cell (rand() % width, rand() % height) can be.
AllCells(w, h) == { Pt(px, py) : px \in 0..(w - 1), py \in 0..(h - 1) }

\* place_fruit: the cells the fruit can be on when it returns. The loop
\* returns on the first sample off the snake (any free cell near the head;
\* any free cell at all when none is near). The sample sequences enumerated
\* hit a free cell within the 10001 tries whenever one exists; when the snake
\* covers the whole grid every sample collides, tries passes 10000 and the
\* last sample stays in fruit, on a segment.
PlaceFruit(sn, len, w, h) ==
  LET occupied == Cells(sn, len)
      near     == Samples(sn[0], w, h) \ occupied
      free     == AllCells(w, h) \ occupied
  IN  IF near # {} THEN near
      ELSE IF free # {} THEN free
      ELSE Samples(sn[0], w, h)

\* The keys the input source may deliver to the next poll_input.
KeysNow ==
  IF player \in {"route", "fed"} THEN { KeyOf(RouteDir(snake[0], width, height)) }
  ELSE IF free_ticks < MaxFreeTicks THEN Keys
  ELSE { "q", "Q" }

\* InitSnake with the body laid out to the right of the head
InitSnakeLeft(w, h) ==
  [i \in 0..STARTING_LENGTH |->
     IF i < STARTING_LENGTH THEN Pt((w \div 2) + i, h \div 2) ELSE Pt(0, 0)]

(* ------------------------------------------------------------------ *)
(* Initial state: main up to "Press any key to start"                   *)
(* ------------------------------------------------------------------ *)
\* init_game: the snake in the centre, moving right
InitSnake(w, h) ==
  [i \in 0..STARTING_LENGTH |->
     IF i < STARTING_LENGTH THEN Pt((w \div 2) - i, h \div 2) ELSE Pt(0, 0)]

\* Nothing printed yet.
NoPrint == [score |-> -1, length |-> -1, level |-> -1]

\* No rejected reversal is being followed.
NoReject == [at |-> Pt(0, 0), d |-> "NONE", n |-> 0]

\* The rejected reversal that is followed after poll_input has handled key c:
\* one that is followed for its two ticks stays as long as dir stays; a
\* request change_direction returns on without assigning starts a new one.
RejectedAfterKey(c) ==
  IF rejected.d # "NONE" /\ rejected.n < 2 /\ DirAfterKey(dir, c) = dir
    THEN rejected
  ELSE IF DirOfKey(c) # "NONE" /\ IsReverse(dir, DirOfKey(c))
    THEN [at |-> snake[0], d |-> dir, n |-> 0]
  ELSE NoReject

\* ... and after a tick that moved the snake.
RejectedAfterMove ==
  IF rejected.d # "NONE" /\ rejected.n < 2
    THEN [rejected EXCEPT !.n = @ + 1]
    ELSE rejected

Init ==
  \E s \in Sessions :
    \E g \in GridsOf(s.argv) :
    /\ width = g.w
    /\ height = g.h
    /\ player = s.player
    /\ score = 0
    /\ level = 1
    /\ delay_ms = INITIAL_DELAY_MS
    /\ snake_len = STARTING_LENGTH
    /\ snake = InitSnake(g.w, g.h)
    /\ dir = "RIGHT"
    /\ fruit \in PlaceFruit(InitSnake(g.w, g.h), STARTING_LENGTH, g.w, g.h)
    /\ game_over = 0
    /\ pc = "start"
    /\ free_ticks = 0
    /\ result = "none"
    /\ last_dir = "NONE"
    /\ eaten = 0
    /\ key = "none"
    /\ tries = 0
    /\ printed = NoPrint
    /\ rejected = NoReject

(* ------------------------------------------------------------------ *)
(* The driver loop                                                     *)
(* ------------------------------------------------------------------ *)
\* main: "Press any key to start": the key is read and thrown away.
Start ==
  /\ pc = "start"
  /\ \E k \in Keys \ {"none"} : pc' = "loop"
  /\ UNCHANGED << width, height, snake, snake_len, dir, fruit, score, delay_ms,
                  level, game_over, player, free_ticks, result, last_dir, eaten,
                  key, tries, printed, rejected >>

\* main loop: poll_input at the top of an iteration, then quit, pause or tick.
Poll ==
  /\ pc = "loop"
  /\ game_over = 0
  /\ \E k \in KeysNow :
       /\ key' = Tolower(k)
       /\ dir' = DirAfterKey(dir, Tolower(k))
       /\ rejected' = RejectedAfterKey(Tolower(k))
       /\ pc' = CASE PollReturn(k) = "q" -> "done"
                  [] PollReturn(k) = "p" -> "paused"
                  [] OTHER -> "step"
  /\ UNCHANGED << width, height, snake, snake_len, fruit, score, delay_ms,
                  level, game_over, player, free_ticks, result, last_dir, eaten,
                  tries, printed >>

\* main: one turn of the pause loop: poll_input, leave on 'p', else sleep.
PausePoll ==
  /\ pc = "paused"
  /\ \E k \in KeysNow :
       /\ key' = Tolower(k)
       /\ dir' = DirAfterKey(dir, Tolower(k))
       /\ rejected' = RejectedAfterKey(Tolower(k))
       /\ pc' = IF PollReturn(k) = "p" THEN "step" ELSE "paused"
  /\ UNCHANGED << width, height, snake, snake_len, fruit, score, delay_ms,
                  level, game_over, player, free_ticks, result, last_dir, eaten,
                  tries, printed >>

\* AfterTick with the test of alive left out: the loop goes on
AfterTickNoBreak(alive, over) == [game_over |-> over, pc |-> "loop"]

\* main: if (!alive) { game_over = 1; break; } draw(); SLEEP_MS(delay_ms);
AfterTick(alive, over) ==
  IF alive = 0 THEN [game_over |-> 1, pc |-> "done"]
  ELSE [game_over |-> over, pc |-> "loop"]

\* AddScore with 1 point for a fruit
AddScoreOne(sc) == sc + 1

\* step_snake: score += 10
AddScore(sc) == sc + 10

\* main: alive = step_snake(); if (!alive) { game_over = 1; break; }
Step ==
  /\ pc = "step"
  /\ LET new_head == Move(snake[0], dir) IN
       IF HitsWall(new_head, width, height) THEN
         /\ result' = "wall"
         /\ game_over' = AfterTick(0, game_over).game_over
         /\ pc' = AfterTick(0, game_over).pc
         /\ UNCHANGED << snake, snake_len, fruit, score, delay_ms, level, eaten,
                         rejected >>
       ELSE IF HitsSelf(new_head, snake, snake_len) THEN
         /\ result' = "self"
         /\ game_over' = AfterTick(0, game_over).game_over
         /\ pc' = AfterTick(0, game_over).pc
         /\ UNCHANGED << snake, snake_len, fruit, score, delay_ms, level, eaten,
                         rejected >>
       ELSE IF point_equal(new_head, fruit) THEN
         LET moved == Extend(ShiftBody(snake, snake_len, new_head), snake_len)
             len   == snake_len + 1
             alive == IF BoardFull(len) THEN 0 ELSE 1
         IN
         /\ snake' = moved
         /\ snake_len' = len
         /\ score' = AddScore(score)
         /\ eaten' = eaten + 1
         /\ fruit' \in PlaceFruit(moved, len, width, height)
         /\ IF SpeedsUp(len, delay_ms)
              THEN delay_ms' = delay_ms - 10 /\ level' = level + 1
              ELSE UNCHANGED << delay_ms, level >>
         /\ result' = IF alive = 0 THEN "full" ELSE "ate"
         /\ game_over' = AfterTick(alive, game_over).game_over
         /\ pc' = AfterTick(alive, game_over).pc
         /\ rejected' = RejectedAfterMove
       ELSE
         /\ snake' = ShiftBody(snake, snake_len, new_head)
         /\ result' = "moved"
         /\ game_over' = AfterTick(1, game_over).game_over
         /\ pc' = AfterTick(1, game_over).pc
         /\ rejected' = RejectedAfterMove
         /\ UNCHANGED << snake_len, fruit, score, delay_ms, level, eaten >>
  /\ last_dir' = dir
  /\ free_ticks' = IF player = "free" THEN free_ticks + 1 ELSE free_ticks
  /\ key' = "none"
  /\ UNCHANGED << width, height, dir, player, tries, printed >>

\* main after the loop: "Game Over!", final score, final length, level reached
Exit ==
  /\ pc = "done"
  /\ printed' = [score |-> score, length |-> snake_len, level |-> level]
  /\ pc' = "exited"
  /\ UNCHANGED << width, height, snake, snake_len, dir, fruit, score, delay_ms,
                  level, game_over, player, free_ticks, result, last_dir, eaten,
                  key, tries, rejected >>

Next == Start \/ Poll \/ PausePoll \/ Step \/ Exit

Spec == Init /\ [][Next]_vars

(* ------------------------------------------------------------------ *)
(* place_fruit, one sample at a time                                   *)
(* ------------------------------------------------------------------ *)
\* place_fruit: the number tries must pass for the loop to give up
MAX_TRIES == 10000

\* The cell n steps along the lap from p.
RECURSIVE LapFrom(_, _, _, _)
LapFrom(p, n, w, h) ==
  IF n = 0 THEN p
  ELSE CHOOSE r \in { LapFrom(q, n - 1, w, h) : q \in { Move(p, RouteDir(p, w, h)) } } : TRUE

\* The snake of the route player when it has eaten the fruit on the last
\* free cell of the w x h grid: it lies on the whole lap, its tail on the
\* cell where the tail started.
FullSnake(w, h) ==
  LET tail == Pt((w \div 2) - (STARTING_LENGTH - 1), h \div 2)
  IN  [i \in 0..(w * h) |->
         IF i < w * h THEN LapFrom(tail, w * h - 1 - i, w, h) ELSE Pt(0, 0)]

\* The calls of place_fruit that are followed sample by sample: the call in
\* init_game on the 10x5 grid, and the call in step_snake with the 10x5 grid
\* full (46 fruits eaten, score 460, delay_ms already 50).
InitPlace ==
  /\ width = 10 /\ height = 5
  /\ \/ /\ player = "free"
        /\ snake = InitSnake(10, 5) /\ snake_len = STARTING_LENGTH
        /\ fruit = Pt(0, 0)
        /\ score = 0 /\ level = 1 /\ delay_ms = INITIAL_DELAY_MS
        /\ dir = "RIGHT" /\ last_dir = "NONE" /\ result = "none" /\ eaten = 0
        /\ key = "none"
     \/ /\ player = "route"
        /\ snake = FullSnake(10, 5) /\ snake_len = 10 * 5
        /\ fruit = FullSnake(10, 5)[0]
        /\ score = 460 /\ level = 16 /\ delay_ms = MIN_DELAY_MS
        /\ dir = "DOWN" /\ last_dir = "DOWN" /\ result = "ate" /\ eaten = 46
        /\ key = "s"
  /\ game_over = 0
  /\ pc = "place_fruit"
  /\ tries = 0
  /\ free_ticks = 0
  /\ printed = NoPrint
  /\ rejected = NoReject

\* place_fruit: one turn of while (1): sample a cell, return if it is off the
\* snake, return if ++tries > 10000, else go round again.
PlaceTry ==
  /\ pc = "place_fruit"
  /\ \E c \in Samples(snake[0], width, height) :
       /\ fruit' = c
       /\ IF ~HitsSelf(c, snake, snake_len)
            THEN tries' = tries /\ pc' = "placed"
            ELSE /\ tries' = tries + 1
                 /\ pc' = IF tries + 1 > MAX_TRIES THEN "placed" ELSE "place_fruit"
  /\ UNCHANGED << width, height, snake, snake_len, dir, score, delay_ms,
                  level, game_over, player, free_ticks, result, last_dir, eaten,
                  key, printed, rejected >>

SpecPlace == InitPlace /\ [][PlaceTry]_vars

(* ------------------------------------------------------------------ *)
(* Claims                                                              *)
(* ------------------------------------------------------------------ *)
Segments == 0..(snake_len - 1)

\* n = width * height and n < width * height, computed without the product
\* (width * height can exceed the integers of the checker).
AreaIs(n) == n % width = 0 /\ n \div width = height
BelowArea(n) == n \div width < height

\* The head step_snake computes in the current state.
NewHead == Move(snake[0], dir)

\* C1: in every reachable state the first snake_len entries of the snake are
\* pairwise distinct cells (snake_len entries cover snake_len cells), each
\* inside the grid.
C1_SnakeDistinctInGrid ==
  /\ \A i \in Segments : InGrid(snake[i], width, height)
  /\ Cardinality(Cells(snake, snake_len)) = snake_len

\* A snake that has grown and turned, after a plain move.
C1_Witness ==
  /\ snake_len >= 6
  /\ result = "moved"
  /\ snake[0].y # snake[snake_len - 1].y
  /\ snake[0].x # snake[snake_len - 1].x

\* C2: in every reachable state (so whenever place_fruit has returned) the
\* fruit is on a cell that none of the snake_len segments occupies.
C2_FruitOffSnake == \A i \in Segments : ~point_equal(fruit, snake[i])

\* C3: the direction a tick uses is never the exact opposite of the
\* direction the previous tick used, and the head it computes is never the
\* cell of the segment behind the head.
C3_NoReversal ==
  pc = "step" =>
    /\ ~IsReverse(last_dir, dir)
    /\ ~point_equal(NewHead, snake[1])

\* C4: a tick whose new head is inside the grid and on any of the snake_len
\* segments, the tail included, ends the game and leaves snake, snake_len,
\* fruit, score, level and delay_ms as they were.
C4_SelfCollisionStops ==
  [][ (pc = "step" /\ InGrid(NewHead, width, height)
        /\ \E i \in Segments : point_equal(NewHead, snake[i]))
      => /\ game_over' = 1 /\ pc' = "done" /\ result' = "self"
         /\ UNCHANGED << snake, snake_len, fruit, score, level, delay_ms >> ]_vars

\* The game has ended on a tick whose new head was the tail's cell.
C4_Witness ==
  /\ result = "self"
  /\ game_over = 1
  /\ point_equal(NewHead, snake[snake_len - 1])

\* C5: a tick whose new head is outside the grid ends the game and changes
\* nothing but the game-over flag: segments, snake_len, dir, fruit, score,
\* level and delay_ms are what they were.
C5_WallStops ==
  [][ (pc = "step" /\ ~InGrid(NewHead, width, height))
      => /\ game_over' = 1 /\ pc' = "done" /\ result' = "wall"
         /\ UNCHANGED << snake, snake_len, dir, fruit, score, level, delay_ms,
                         width, height >> ]_vars

\* The game has ended at a wall after a fruit was eaten.
C5_Witness ==
  /\ result = "wall"
  /\ game_over = 1
  /\ score = 10
  /\ ~InGrid(NewHead, width, height)

\* C6: a tick whose new head is the fruit's cell (no wall, no segment there)
\* adds 1 to snake_len and 10 to score, puts the new head at index 0, moves
\* old segment i to index i + 1 (the old tail's cell stays occupied) and
\* places the fruit again: the new fruit is a cell place_fruit returns for
\* the grown snake.
C6_EatGrows ==
  [][ (pc = "step" /\ InGrid(NewHead, width, height)
        /\ (\A i \in Segments : ~point_equal(NewHead, snake[i]))
        /\ point_equal(NewHead, fruit))
      => /\ snake_len' = snake_len + 1
         /\ score' = score + 10
         /\ snake'[0] = NewHead
         /\ \A i \in Segments : snake'[i + 1] = snake[i]
         /\ InGrid(fruit', width, height)
         /\ fruit' \in PlaceFruit(snake', snake_len', width, height) ]_vars

\* The first fruit has just been eaten: length 5, score 10, game going on.
C6_Witness ==
  /\ result = "ate"
  /\ snake_len = STARTING_LENGTH + 1
  /\ score = 10
  /\ pc = "loop"

\* C7: on a fruit-eating tick the speed-up (delay_ms down by 10, level up by
\* 1) happens exactly when the fruit is the 3rd, 6th, 9th, ... eaten and
\* delay_ms is above 50; otherwise delay_ms and level stay.
C7_SpeedUpEveryThirdFruit ==
  [][ (pc = "step" /\ eaten' = eaten + 1)
      => IF eaten' % 3 = 0 /\ delay_ms > MIN_DELAY_MS
           THEN delay_ms' = delay_ms - 10 /\ level' = level + 1
           ELSE delay_ms' = delay_ms /\ level' = level ]_vars

\* C8: 50 <= delay_ms <= 200, delay_ms is a multiple of 10 and
\* level = 1 + (200 - delay_ms) / 10 in every reachable state; delay_ms never
\* increases, and at 50 neither delay_ms nor level changes any more.
C8_DelayAndLevel ==
  /\ [](/\ MIN_DELAY_MS <= delay_ms /\ delay_ms <= INITIAL_DELAY_MS
        /\ delay_ms % 10 = 0
        /\ level = 1 + (INITIAL_DELAY_MS - delay_ms) \div 10)
  /\ [][ /\ delay_ms' <= delay_ms
         /\ delay_ms = MIN_DELAY_MS => (delay_ms' = MIN_DELAY_MS /\ level' = level) ]_vars

\* A fruit eaten at the floor, on a length that is a multiple of 3.
C8_Witness ==
  /\ delay_ms = MIN_DELAY_MS
  /\ result = "ate"
  /\ snake_len % 3 = 0
  /\ snake_len > 48

\* C9: the game does not go on with a snake of length width * height - 1:
\* the tick that reaches that length reports game over.
C9_FullBoardStops ==
  AreaIs(snake_len + 1) => (game_over = 1 /\ pc \in {"done", "exited"})

\* C10: 4 <= snake_len <= width * height - 1 in every reachable state, and
\* snake_len never decreases.
C10_LengthBounds ==
  /\ [](STARTING_LENGTH <= snake_len /\ BelowArea(snake_len))
  /\ [][snake_len' >= snake_len]_vars

\* The direction opposite to d, and the cell n cells from p in direction d.
Opposite(d) ==
  CASE d = "UP" -> "DOWN" [] d = "DOWN" -> "UP" [] d = "LEFT" -> "RIGHT"
    [] d = "RIGHT" -> "LEFT"
Ahead(p, d, n) ==
  Pt(p.x + n * (IF d = "RIGHT" THEN 1 ELSE IF d = "LEFT" THEN -1 ELSE 0),
     p.y + n * (IF d = "DOWN" THEN 1 ELSE IF d = "UP" THEN -1 ELSE 0))

\* C11: when poll_input hands a direction key to change_direction, dir stays
\* as it is if the key asks for the opposite of dir and becomes the key's
\* direction otherwise (also when that is dir itself); snake, snake_len,
\* fruit, score, level, delay_ms and game_over stay as they are. While a
\* rejected reversal has not been followed by another change of dir, the
\* head is as many cells from where it was, in the original direction, as
\* ticks were made (up to two).
C11_ReversalIgnored ==
  /\ [][(pc \in {"loop", "paused"} /\ DirOfKey(key') # "NONE") =>
          /\ dir' = IF DirOfKey(key') = Opposite(dir) THEN dir ELSE DirOfKey(key')
          /\ UNCHANGED << snake, snake_len, fruit, score, level, delay_ms,
                          game_over, width, height >>]_vars
  /\ [](rejected.d # "NONE" =>
          /\ dir = rejected.d
          /\ rejected.n \in 0..2
          /\ snake[0] = Ahead(rejected.at, rejected.d, rejected.n))

\* Two ticks have been made since a reversal was rejected.
C11_Witness == rejected.d # "NONE" /\ rejected.n = 2 /\ result \in {"moved", "ate"}

\* C12: a tick whose new head cell is inside the grid, on no segment and not
\* the fruit returns 1 (the loop goes on), puts the head one cell further in
\* dir, puts every other segment where the segment before it was, leaves the
\* old tail cell free of the snake, and leaves snake_len, fruit, score,
\* level, delay_ms and dir as they are.
C12_NormalMove ==
  [][(/\ pc = "step"
      /\ InGrid(Ahead(snake[0], dir, 1), width, height)
      /\ Ahead(snake[0], dir, 1) \notin Cells(snake, snake_len)
      /\ Ahead(snake[0], dir, 1) # fruit) =>
       /\ result' = "moved" /\ pc' = "loop" /\ game_over' = 0
       /\ snake'[0] = Ahead(snake[0], dir, 1)
       /\ \A i \in 1..(snake_len - 1) : snake'[i] = snake[i - 1]
       /\ snake[snake_len - 1] \notin Cells(snake', snake_len')
       /\ UNCHANGED << snake_len, fruit, score, level, delay_ms, dir >>]_vars

\* A plain move upwards of a snake that has eaten.
C12_Witness ==
  /\ result = "moved" /\ pc = "loop" /\ last_dir = "UP"
  /\ snake_len > STARTING_LENGTH
  /\ snake[0] = Ahead(snake[1], "UP", 1)

\* C13: once step_snake has returned 0 (wall, self collision or board full)
\* the loop is left with game_over = 1, step_snake is not called again,
\* nothing of snake, snake_len, score and level changes any more, and what is
\* printed at exit is the score, length and level of that moment.
C13_GameOverTerminal ==
  /\ [](result \in {"wall", "self", "full"} =>
          game_over = 1 /\ pc \in {"done", "exited"})
  /\ [][(result \in {"wall", "self", "full"}) =>
          /\ pc' # "step"
          /\ UNCHANGED << snake, snake_len, score, level, result, eaten,
                          last_dir, game_over >>]_vars
  /\ [](pc = "exited" =>
          printed = [score |-> score, length |-> snake_len, level |-> level])

\* The program has exited after filling the buffer on the default grid.
C13_Witness ==
  /\ pc = "exited" /\ result = "full"
  /\ printed = [score |-> 5950, length |-> 599, level |-> 16]

\* C14: right after init_game the snake has 4 segments, segment i at
\* (width/2 - i, height/2), all inside the grid, dir is RIGHT, score 0,
\* level 1, delay_ms 200, game_over 0, and the fruit is inside the grid; on
\* the 10x5 grid the snake lies on row 2.
C14_InitialState ==
  pc = "start" =>
    /\ snake_len = 4
    /\ \A i \in 0..3 :
         /\ snake[i] = Pt((width \div 2) - i, height \div 2)
         /\ InGrid(snake[i], width, height)
    /\ dir = "RIGHT" /\ score = 0 /\ level = 1 /\ delay_ms = 200
    /\ game_over = 0
    /\ InGrid(fruit, width, height)
    /\ (width = 10 /\ height = 5) => \A i \in 0..3 : snake[i].y = 2

\* The start of a game on the 10x5 grid.
C14_Witness ==
  /\ pc = "start" /\ width = 10 /\ height = 5
  /\ snake[0] = Pt(5, 2) /\ snake[3] = Pt(2, 2)

\* C15: the grid the game uses has width >= 10, height >= 5 and
\* width * height <= 10000 (the product taken without overflow).
C15_GridValid ==
  width >= 10 /\ height >= 5 /\ width <= 10000 \div height

\* C16: place_fruit gives up after exactly 10,000 failed samples: it never
\* counts more, it is still sampling only below that count, and when it has
\* returned with the fruit on a segment the count is 10,000. It returns at
\* once on a sample off the snake.
C16_GivesUpAfter10000 ==
  /\ tries <= 10000
  /\ pc = "place_fruit" => tries < 10000
  /\ (pc = "placed" /\ HitsSelf(fruit, snake, snake_len)) => tries = 10000

\* C17: while the game is paused, snake, snake_len, dir, fruit, score, level
\* and delay_ms stay as they are whatever key is read.
C17_PausedUnchanged ==
  [][pc = "paused" =>
       UNCHANGED << snake, snake_len, dir, fruit, score, level, delay_ms >>]_vars

\* C18: when the key read in this iteration of the loop is a quit key, the
\* loop has been left (so no tick follows that key).
C18_QuitExits == key = "q" => pc \in {"done", "exited"}

\* C19: the written part of the snake array lies within 0..MAX_SNAKE-1, and
\* so does the index snake_len that the shift of a tick writes.
C19_BufferNotOverrun ==
  /\ \A i \in DOMAIN snake : i >= 0 /\ i <= MAX_SNAKE - 1
  /\ snake_len <= MAX_SNAKE - 1
  /\ STARTING_LENGTH - 1 <= MAX_SNAKE - 1

\* The snake has filled the buffer on the 100x100 grid.
C19_Witness ==
  /\ width = 100 /\ height = 100
  /\ snake_len = MAX_SNAKE - 1 /\ result = "full"

\* C20: score = 10 * (snake_len - 4) and score >= 0 in every state, and
\* score and snake_len change only together, by 10 and 1, on a tick whose
\* new head is on the fruit.
C20_ScoreTracksLength ==
  /\ [](score = 10 * (snake_len - 4) /\ score >= 0)
  /\ [][(score' # score \/ snake_len' # snake_len) =>
          /\ pc = "step" /\ point_equal(NewHead, fruit)
          /\ score' = score + 10 /\ snake_len' = snake_len + 1]_vars

\* Three fruits eaten.
C20_Witness == score = 30 /\ snake_len = 7 /\ result = "ate"

====
